---------------------------- MODULE Spec2Model ----------------------------
(***************************************************************************)
(* A model of convert_vcf_to_xml.py: the conversion of vCard text into a   *)
(* Grandstream XML phonebook.                                              *)
(*                                                                         *)
(* A Python str is modelled as a sequence of one-character strings, so     *)
(* that strip, split, upper, the keypad mapping and the two regular        *)
(* expressions are computed character by character as the code does.      *)
(* A dict is a function whose domain is its key set; Python's None for an  *)
(* optional result is the empty sequence of a 0-or-1 element sequence.     *)
(***************************************************************************)
EXTENDS Integers, Sequences, FiniteSets, TLC

(***************************************************************************)
(* Python string primitives the program uses.                              *)
(***************************************************************************)
LowerLetters ==
  << "a", "b", "c", "d", "e", "f", "g", "h", "i", "j", "k", "l", "m",
     "n", "o", "p", "q", "r", "s", "t", "u", "v", "w", "x", "y", "z" >>

UpperLetters ==
  << "A", "B", "C", "D", "E", "F", "G", "H", "I", "J", "K", "L", "M",
     "N", "O", "P", "Q", "R", "S", "T", "U", "V", "W", "X", "Y", "Z" >>

Digits == { "0", "1", "2", "3", "4", "5", "6", "7", "8", "9" }

\* The characters str.strip() removes that a line can hold (the text is
\* split on "\n", so a line holds no "\n").
Whitespace == { " ", "\t", "\r" }

\* The index of the first occurrence of c in seq.
IndexIn(c, seq) ==
  CHOOSE i \in 1..Len(seq) : seq[i] = c /\ \A j \in 1..(i - 1) : seq[j] # c

Has(s, c) == \E i \in 1..Len(s) : s[i] = c

\* The case mappings of the letters, as tables.
UpperOf == [c \in { LowerLetters[i] : i \in 1..26 } |->
              UpperLetters[IndexIn(c, LowerLetters)]]

LowerOf == [c \in { UpperLetters[i] : i \in 1..26 } |->
              LowerLetters[IndexIn(c, UpperLetters)]]

upper_char(c) == IF c \in DOMAIN UpperOf THEN UpperOf[c] ELSE c

lower_char(c) == IF c \in DOMAIN LowerOf THEN LowerOf[c] ELSE c

RECURSIVE upper(_)
upper(s) == IF s = <<>> THEN <<>> ELSE <<upper_char(Head(s))>> \o upper(Tail(s))

RECURSIVE lower(_)
lower(s) == IF s = <<>> THEN <<>> ELSE <<lower_char(Head(s))>> \o lower(Tail(s))

RECURSIVE lstrip(_)
lstrip(s) ==
  IF s # <<>> /\ Head(s) \in Whitespace THEN lstrip(Tail(s)) ELSE s

RECURSIVE rstrip(_)
rstrip(s) ==
  IF s # <<>> /\ s[Len(s)] \in Whitespace
  THEN rstrip(SubSeq(s, 1, Len(s) - 1))
  ELSE s

strip(s) == rstrip(lstrip(s))

\* s.split(sep): every segment between occurrences of sep.
RECURSIVE split(_, _)
split(s, sep) ==
  IF Has(s, sep)
  THEN LET i == IndexIn(sep, s)
       IN  <<SubSeq(s, 1, i - 1)>> \o split(SubSeq(s, i + 1, Len(s)), sep)
  ELSE <<s>>

\* s.split(sep, 1): split once, on the first occurrence of sep.
split1(s, sep) ==
  IF Has(s, sep)
  THEN LET i == IndexIn(sep, s)
       IN  <<SubSeq(s, 1, i - 1), SubSeq(s, i + 1, Len(s))>>
  ELSE <<s>>


(***************************************************************************)
(* Literals of the program text.                                           *)
(***************************************************************************)
BEGIN == << "B", "E", "G", "I", "N" >>
END == << "E", "N", "D" >>
VCARD == << "V", "C", "A", "R", "D" >>
TYPE == << "T", "Y", "P", "E" >>
TEL == << "T", "E", "L" >>
N == << "N" >>
FN == << "F", "N" >>
cell == << "c", "e", "l", "l" >>
mobile == << "m", "o", "b", "i", "l", "e" >>
home == << "h", "o", "m", "e" >>
work == << "w", "o", "r", "k" >>

\* Python's None where the program returns it in place of a str: a value no
\* str equals (every element of a str is a single character).
None == << "None" >>

\* dict(): no keys.
EmptyDict == << >>

\* d[k] = v
DictSet(d, k, v) == [x \in (DOMAIN d) \cup {k} |-> IF x = k THEN v ELSE d[x]]

(***************************************************************************)
(* parse_vcard_line: one line into (prop_name, params, value).             *)
(* A parameter value is True (a bare flag), a str, or the list stored      *)
(* under TYPE: kind says which, items holds the str (one item) or the      *)
(* list.                                                                   *)
(***************************************************************************)
ParamFlag == [kind |-> "flag", items |-> << >>]
ParamStr(val) == [kind |-> "str", items |-> <<val>>]
ParamList(vals) == [kind |-> "list", items |-> vals]

\* return None, None, None
NoDecode == [prop_name |-> None, params |-> EmptyDict, value |-> None]

\* The loop over parts[1:] and the store of the collected TYPE values.
RECURSIVE collect_params(_, _, _)
collect_params(segs, params, type_values) ==
  IF segs = << >>
  THEN IF type_values # << >>
       THEN DictSet(params, TYPE, ParamList(type_values))
       ELSE params
  ELSE LET param == Head(segs)
       IN  IF Has(param, "=")
           THEN LET kv == split1(param, "=")
                    key == kv[1]
                    val == kv[2]
                IN  IF upper(key) = TYPE
                    THEN collect_params(Tail(segs), params,
                                        Append(type_values, upper(val)))
                    ELSE collect_params(Tail(segs),
                                        DictSet(params, upper(key),
                                                ParamStr(upper(val))),
                                        type_values)
           ELSE collect_params(Tail(segs),
                               DictSet(params, upper(param), ParamFlag),
                               type_values)

parse_vcard_line(raw) ==
  LET line == strip(raw)
  IN  IF line = << >> THEN NoDecode
      ELSE IF ~Has(line, ":") THEN NoDecode
      ELSE LET pv == split1(line, ":")
               prop_part == pv[1]
               value == pv[2]
           IN  IF Has(prop_part, ";")
               THEN LET parts == split(prop_part, ";")
                    IN  [prop_name |-> upper(parts[1]),
                         params |-> collect_params(Tail(parts), EmptyDict, << >>),
                         value |-> value]
               ELSE [prop_name |-> upper(prop_part),
                     params |-> EmptyDict,
                     value |-> value]

(***************************************************************************)
(* parse_vcf_file: the text into the list of contacts.  A contact maps a   *)
(* property name to the list of its occurrences, each {value, params}.     *)
(***************************************************************************)
\* current_contact[prop_name].append({'value': value, 'params': params})
add_property(contact, d) ==
  LET entry == [value |-> d.value, params |-> d.params]
      old == IF d.prop_name \in DOMAIN contact THEN contact[d.prop_name] ELSE << >>
  IN  DictSet(contact, d.prop_name, Append(old, entry))

\* One iteration of the loop over lines; st is (contacts, current_contact).
parse_line(st, raw) ==
  LET line == strip(raw)
  IN  IF line = << >> THEN st
      ELSE IF Head(line) = " " \/ Head(line) = "\t" THEN st
      ELSE LET d == parse_vcard_line(line)
           IN  IF d.prop_name = BEGIN /\ d.value = VCARD
               THEN [st EXCEPT !.current_contact = EmptyDict]
               ELSE IF d.prop_name = END /\ d.value = VCARD
               THEN IF DOMAIN st.current_contact # {}
                    THEN [contacts |-> Append(st.contacts, st.current_contact),
                          current_contact |-> EmptyDict]
                    ELSE st
               ELSE IF d.prop_name # None /\ d.prop_name # << >>
               THEN [st EXCEPT !.current_contact = add_property(@, d)]
               ELSE st

RECURSIVE parse_lines(_, _)
parse_lines(st, lines) ==
  IF lines = << >> THEN st
  ELSE parse_lines(parse_line(st, Head(lines)), Tail(lines))

parse_vcf_file(vcf_content) ==
  parse_lines([contacts |-> << >>, current_contact |-> EmptyDict],
              split(vcf_content, "\n")).contacts

(***************************************************************************)
(* Phone number normalisation.                                             *)
(***************************************************************************)
keypad_map ==
  [c \in { UpperLetters[i] : i \in 1..26 } |->
     CASE c \in { "A", "B", "C" } -> "2"
       [] c \in { "D", "E", "F" } -> "3"
       [] c \in { "G", "H", "I" } -> "4"
       [] c \in { "J", "K", "L" } -> "5"
       [] c \in { "M", "N", "O" } -> "6"
       [] c \in { "P", "Q", "R", "S" } -> "7"
       [] c \in { "T", "U", "V" } -> "8"
       [] c \in { "W", "X", "Y", "Z" } -> "9"]

RECURSIVE map_keypad(_)
map_keypad(s) ==
  IF s = << >> THEN << >>
  ELSE << IF Head(s) \in DOMAIN keypad_map THEN keypad_map[Head(s)] ELSE Head(s) >>
       \o map_keypad(Tail(s))

convert_letters_to_digits(phone_str) == map_keypad(upper(phone_str))

\* re.sub(r'[^\+\*#0-9]', '', converted)
sanitize_phone_number(phone_str) ==
  SelectSeq(convert_letters_to_digits(phone_str),
            LAMBDA c : c \in Digits \cup { "+", "*", "#" })

\* len(re.sub(r'[^0-9]', '', phone_str))
count_digits(phone_str) == Len(SelectSeq(phone_str, LAMBDA c : c \in Digits))

(***************************************************************************)
(* extract_contact_info: (firstname, lastname, phone_numbers) of a         *)
(* contact, or an exception: raised is TRUE where the code raises          *)
(* AttributeError (type_values.lower() on the True of a bare TYPE flag).   *)
(***************************************************************************)
\* The filter with its threshold off by one: six digits pass.
tel_accepted_six(sanitized_phone) ==
  sanitized_phone # << >> /\ count_digits(sanitized_phone) >= 6

\* if sanitized_phone and count_digits(sanitized_phone) > 6
tel_accepted(sanitized_phone) ==
  sanitized_phone # << >> /\ count_digits(sanitized_phone) > 6

\* The three-way match on one lower-cased TYPE value; "" where none matches.
match_type(type_val_lower) ==
  IF type_val_lower \in { cell, mobile } THEN "Mobile"
  ELSE IF type_val_lower = home THEN "Home"
  ELSE IF type_val_lower = work THEN "Work"
  ELSE ""

\* The scan without its breaks: the last match wins.
RECURSIVE scan_types_last(_)
scan_types_last(type_values) ==
  IF type_values = << >> THEN "Work"
  ELSE LET m == match_type(lower(type_values[Len(type_values)]))
       IN  IF m # "" THEN m
           ELSE scan_types_last(SubSeq(type_values, 1, Len(type_values) - 1))

\* for type_val in type_values: ... break on the first match
RECURSIVE scan_types(_)
scan_types(type_values) ==
  IF type_values = << >> THEN "Work"
  ELSE LET m == match_type(lower(Head(type_values)))
       IN  IF m # "" THEN m ELSE scan_types(Tail(type_values))

\* The category of an accepted TEL occurrence from its params.
resolve_phone_type(params) ==
  IF TYPE \notin DOMAIN params
  THEN [raised |-> FALSE, phone_type |-> "Work"]
  ELSE LET type_values == params[TYPE]
       IN  IF type_values.kind = "list"
           THEN [raised |-> FALSE, phone_type |-> scan_types(type_values.items)]
           ELSE IF type_values.kind = "str"
           THEN LET m == match_type(lower(type_values.items[1]))
                IN  [raised |-> FALSE,
                     phone_type |-> IF m # "" THEN m ELSE "Work"]
           ELSE [raised |-> TRUE, phone_type |-> "Work"]

\* The limit off by one: a fourth number is taken.
phone_limit_above_three(phone_numbers) == Len(phone_numbers) > 3

\* if len(phone_numbers) >= 3: break
phone_limit_reached(phone_numbers) == Len(phone_numbers) >= 3

\* for tel in contact['TEL']: the loop, phone_numbers being the list so far.
RECURSIVE collect_phones(_, _)
collect_phones(tels, phone_numbers) ==
  IF tels = << >> THEN [raised |-> FALSE, phone_numbers |-> phone_numbers]
  ELSE IF phone_limit_reached(phone_numbers)
  THEN [raised |-> FALSE, phone_numbers |-> phone_numbers]
  ELSE LET tel == Head(tels)
           phone_value == strip(tel.value)
           sanitized_phone == sanitize_phone_number(phone_value)
       IN  IF tel_accepted(sanitized_phone)
           THEN LET t == resolve_phone_type(tel.params)
                IN  IF t.raised
                    THEN [raised |-> TRUE, phone_numbers |-> phone_numbers]
                    ELSE collect_phones(
                           Tail(tels),
                           Append(phone_numbers,
                                  [phone_type |-> t.phone_type,
                                   phone_number |-> sanitized_phone]))
           ELSE collect_phones(Tail(tels), phone_numbers)

extract_contact_info(contact) ==
  LET name_parts == IF N \in DOMAIN contact
                    THEN split(contact[N][1].value, ";")
                    ELSE << >>
      lastname == IF Len(name_parts) >= 2 THEN strip(name_parts[1]) ELSE << >>
      given == IF Len(name_parts) >= 2 THEN strip(name_parts[2]) ELSE << >>
      firstname == IF given = << >> /\ FN \in DOMAIN contact
                   THEN strip(contact[FN][1].value)
                   ELSE given
      phones == IF TEL \in DOMAIN contact
                THEN collect_phones(contact[TEL], << >>)
                ELSE [raised |-> FALSE, phone_numbers |-> << >>]
  IN  [raised |-> phones.raised,
       firstname |-> firstname,
       lastname |-> lastname,
       phone_numbers |-> phones.phone_numbers]

(***************************************************************************)
(* generate_contact_xml: the <Contact> block of an accepted contact, kept  *)
(* as its elements; << >> is the None of a rejected one.                   *)
(***************************************************************************)
DigitChars == << "0", "1", "2", "3", "4", "5", "6", "7", "8", "9" >>

\* The decimal text of a non-negative integer, as f'{contact_id}' writes it.
RECURSIVE str_int(_)
str_int(n) ==
  IF n < 10 THEN << DigitChars[n + 1] >>
  ELSE str_int(n \div 10) \o << DigitChars[(n % 10) + 1] >>

\* html.escape(s), quote=True
escape_char(c) ==
  CASE c = "&" -> << "&", "a", "m", "p", ";" >>
    [] c = "<" -> << "&", "l", "t", ";" >>
    [] c = ">" -> << "&", "g", "t", ";" >>
    [] c = "\"" -> << "&", "q", "u", "o", "t", ";" >>
    [] c = "'" -> << "&", "#", "x", "2", "7", ";" >>
    [] OTHER -> << c >>

RECURSIVE escape(_)
escape(s) == IF s = << >> THEN << >> ELSE escape_char(Head(s)) \o escape(Tail(s))

\* for phone_type, phone_number in phone_numbers: one <Phone> block each
RECURSIVE phones_xml(_)
phones_xml(phone_numbers) ==
  IF phone_numbers = << >> THEN << >>
  ELSE << [type |-> Head(phone_numbers).phone_type,
           phonenumber |-> escape(Head(phone_numbers).phone_number),
           accountindex |-> << "1" >>] >>
       \o phones_xml(Tail(phone_numbers))

generate_contact_xml(contact_id, firstname, lastname, phone_numbers) ==
  IF firstname = << >> \/ phone_numbers = << >> THEN << >>
  ELSE << [id |-> str_int(contact_id),
           FirstName |-> escape(firstname),
           LastName |-> IF lastname # << >> THEN << escape(lastname) >> ELSE << >>,
           Phone |-> phones_xml(phone_numbers),
           Frequent |-> << "0" >>,
           Primary |-> << "0" >>] >>

(***************************************************************************)
(* Input lines.  Each is the text of one line of a vCard file.             *)
(***************************************************************************)
\* BEGIN:VCARD
LineBegin ==
  << "B", "E", "G", "I", "N", ":", "V", "C", "A", "R", "D" >>

\* END:VCARD
LineEnd ==
  << "E", "N", "D", ":", "V", "C", "A", "R", "D" >>

\* N:Smith;John;;;
LineNSmithJohn ==
  << "N", ":", "S", "m", "i", "t", "h", ";", "J", "o", "h", "n", ";", ";",
     ";" >>

\* N: Doe ; Jane 
LineNDoeJane ==
  << "N", ":", " ", "D", "o", "e", " ", ";", " ", "J", "a", "n", "e", " " >>

\* N:Smith;;
LineNSmithOnly ==
  << "N", ":", "S", "m", "i", "t", "h", ";", ";" >>

\* N:Solo
LineNSolo ==
  << "N", ":", "S", "o", "l", "o" >>

\* FN:Al <Smith>
LineFNAl ==
  << "F", "N", ":", "A", "l", " ", "<", "S", "m", "i", "t", "h", ">" >>

\* FN:Zed
LineFNZed ==
  << "F", "N", ":", "Z", "e", "d" >>

\* TEL:555-1234
LineTelPlain ==
  << "T", "E", "L", ":", "5", "5", "5", "-", "1", "2", "3", "4" >>

\* TEL;TYPE=CELL:1-800-FLOWERS
LineTelCell ==
  << "T", "E", "L", ";", "T", "Y", "P", "E", "=", "C", "E", "L", "L", ":",
     "1", "-", "8", "0", "0", "-", "F", "L", "O", "W", "E", "R", "S" >>

\* tel;type=Home;PREF:+1 (555) 123-0009
LineTelHome ==
  << "t", "e", "l", ";", "t", "y", "p", "e", "=", "H", "o", "m", "e", ";",
     "P", "R", "E", "F", ":", "+", "1", " ", "(", "5", "5", "5", ")", " ",
     "1", "2", "3", "-", "0", "0", "0", "9" >>

\* TEL;TYPE=HOME,FAX:+15551230001
LineTelHomeFax ==
  << "T", "E", "L", ";", "T", "Y", "P", "E", "=", "H", "O", "M", "E", ",",
     "F", "A", "X", ":", "+", "1", "5", "5", "5", "1", "2", "3", "0", "0",
     "0", "1" >>

\* TEL;TYPE=PAGER:5551230004
LineTelPager ==
  << "T", "E", "L", ";", "T", "Y", "P", "E", "=", "P", "A", "G", "E", "R",
     ":", "5", "5", "5", "1", "2", "3", "0", "0", "0", "4" >>

\* TEL;TYPE=PAGER;TYPE=home;TYPE=CELL:5551230002
LineTelTypeList ==
  << "T", "E", "L", ";", "T", "Y", "P", "E", "=", "P", "A", "G", "E", "R",
     ";", "T", "Y", "P", "E", "=", "h", "o", "m", "e", ";", "T", "Y", "P",
     "E", "=", "C", "E", "L", "L", ":", "5", "5", "5", "1", "2", "3", "0",
     "0", "0", "2" >>

\* TEL:12345
LineTelShort ==
  << "T", "E", "L", ":", "1", "2", "3", "4", "5" >>

\* TEL:+123456
LineTelSixDigits ==
  << "T", "E", "L", ":", "+", "1", "2", "3", "4", "5", "6" >>

\* TEL;TYPE:5551230003
LineTelBareType ==
  << "T", "E", "L", ";", "T", "Y", "P", "E", ":", "5", "5", "5", "1", "2",
     "3", "0", "0", "0", "3" >>

\*  TEL:5559876
LineFoldedTel ==
  << " ", "T", "E", "L", ":", "5", "5", "5", "9", "8", "7", "6" >>

\* <TAB>FN:Bo
LineTabFoldedFN ==
  << "\t", "F", "N", ":", "B", "o" >>

(***************************************************************************)
(* Bounded inputs.  A file is a sequence of fragments, each some lines of  *)
(* a vCard file, every line ended by "\n".                                 *)
(***************************************************************************)
MaxFragments == 4
MaxTel == 4

Fragments ==
  { \* a complete, well-formed record with a structured name
    << LineBegin, LineNSmithJohn, LineTelCell, LineEnd >>,
    \* a record with no N and no FN
    << LineBegin, LineTelPlain, LineEnd >>,
    \* a named record whose TEL entries are all too short
    << LineBegin, LineFNAl, LineTelShort, LineTelSixDigits, LineEnd >>,
    \* a named record with a short and a long TEL
    << LineBegin, LineNDoeJane, LineTelSixDigits, LineTelHome, LineEnd >>,
    \* properties and an END with no BEGIN before them
    << LineFNZed, LineTelPlain, LineEnd >>,
    \* a record with a line that starts with a space
    << LineBegin, LineFNAl, LineFoldedTel, LineEnd >>,
    \* a record whose TEL has a bare TYPE flag
    << LineBegin, LineFNAl, LineTelBareType, LineEnd >>,
    \* a record that is opened and not closed
    << LineBegin, LineFNZed, LineTelPlain >>,
    \* a line that starts with a tab, and an END
    << LineTabFoldedFN, LineEnd >> }

\* The sequences of at most n elements of S.
SeqsUpTo(S, n) == UNION { [1..k -> S] : k \in 0..n }

RECURSIVE Flatten(_)
Flatten(ss) == IF ss = << >> THEN << >> ELSE Head(ss) \o Flatten(Tail(ss))

\* The text of a file holding these lines.
RECURSIVE TextOf(_)
TextOf(lines) ==
  IF lines = << >> THEN << >>
  ELSE Head(lines) \o << "\n" >> \o TextOf(Tail(lines))

InputTexts == { TextOf(Flatten(fs)) : fs \in SeqsUpTo(Fragments, MaxFragments) }

\* What the N and FN lines of one record can be.
NameLines ==
  { << >>,
    << LineNSmithJohn >>,
    << LineFNAl >>,
    << LineNSmithOnly, LineFNAl >>,
    << LineNSolo, LineFNAl >>,
    << LineNSmithOnly >> }

\* What one TEL line of a record can be.
TelLines ==
  { LineTelPlain, LineTelCell, LineTelHomeFax, LineTelPager,
    LineTelTypeList, LineTelSixDigits, LineTelBareType }

(***************************************************************************)
(* State.                                                                  *)
(***************************************************************************)
VARIABLES
  vcf_file,            \* << >>: no such file; << text >>: the file's content
  pc,                  \* where convert_vcf_to_xml is
  contacts,            \* parse_vcf_file's result
  idx,                 \* the number of contacts the loop has taken
  contact_id,
  processed_contacts,
  xml_output,          \* the <Contact> blocks appended so far (the XML
                       \* declaration and the <AddressBook> tags around
                       \* them are fixed text and are left out)
  xml_file,            \* << >>: not written; << blocks >>: as written
  name_lines,          \* extract_contact_info alone: the record's N/FN lines
  tel_lines,           \* ... and its TEL lines
  contact,             \* ... the contact parsed from them
  info,                \* ... what extract_contact_info returned
  epc                  \* ... "call", "returned" or "raised"

vars ==
  << vcf_file, pc, contacts, idx, contact_id, processed_contacts, xml_output,
     xml_file, name_lines, tel_lines, contact, info, epc >>

convert_vars ==
  << vcf_file, pc, contacts, idx, contact_id, processed_contacts, xml_output,
     xml_file >>

extract_vars == << name_lines, tel_lines, contact, info, epc >>

NoInfo ==
  [raised |-> FALSE, firstname |-> << >>, lastname |-> << >>,
   phone_numbers |-> << >>]

(***************************************************************************)
(* convert_vcf_to_xml                                                      *)
(***************************************************************************)
\* The counter incremented for every contact, emitted or not.
next_contact_id_always(id, contact_xml) == id + 1

\* if contact_xml: contact_id += 1
next_contact_id(id, contact_xml) ==
  IF contact_xml # << >> THEN id + 1 ELSE id

\* open(vcf_file) succeeds; the content is parsed and the output started.
ReadAndParse ==
  /\ pc = "start"
  /\ vcf_file # << >>
  /\ contacts' = parse_vcf_file(vcf_file[1])
  /\ idx' = 0
  /\ xml_output' = << >>
  /\ contact_id' = 1
  /\ processed_contacts' = 0
  /\ pc' = "loop"
  /\ UNCHANGED << vcf_file, xml_file >>
  /\ UNCHANGED extract_vars

\* except FileNotFoundError: sys.exit(1)
FileNotFound ==
  /\ pc = "start"
  /\ vcf_file = << >>
  /\ pc' = "exit_not_found"
  /\ UNCHANGED << vcf_file, contacts, idx, contact_id, processed_contacts,
                  xml_output, xml_file >>
  /\ UNCHANGED extract_vars

\* One iteration of the loop over contacts that raises nothing.
ProcessContact ==
  /\ pc = "loop"
  /\ idx < Len(contacts)
  /\ \E r \in { extract_contact_info(contacts[idx + 1]) } :
     LET contact_xml == generate_contact_xml(contact_id, r.firstname,
                                             r.lastname, r.phone_numbers)
     IN  /\ ~r.raised
         /\ xml_output' = xml_output \o contact_xml
         /\ contact_id' = next_contact_id(contact_id, contact_xml)
         /\ processed_contacts' =
              IF contact_xml # << >> THEN processed_contacts + 1
              ELSE processed_contacts
  /\ idx' = idx + 1
  /\ UNCHANGED << vcf_file, pc, contacts, xml_file >>
  /\ UNCHANGED extract_vars

\* An iteration in which extract_contact_info raises:
\* except Exception: sys.exit(1), the output file not written.
ProcessingError ==
  /\ pc = "loop"
  /\ idx < Len(contacts)
  /\ extract_contact_info(contacts[idx + 1]).raised
  /\ pc' = "exit_error"
  /\ UNCHANGED << vcf_file, contacts, idx, contact_id, processed_contacts,
                  xml_output, xml_file >>
  /\ UNCHANGED extract_vars

\* The loop is over: the output is written and the run succeeds.
WriteXml ==
  /\ pc = "loop"
  /\ idx = Len(contacts)
  /\ xml_file' = << xml_output >>
  /\ pc' = "done"
  /\ UNCHANGED << vcf_file, contacts, idx, contact_id, processed_contacts,
                  xml_output >>
  /\ UNCHANGED extract_vars

Init ==
  /\ vcf_file \in { << >> } \cup { << t >> : t \in InputTexts }
  /\ pc = "start"
  /\ contacts = << >>
  /\ idx = 0
  /\ contact_id = 0
  /\ processed_contacts = 0
  /\ xml_output = << >>
  /\ xml_file = << >>
  /\ name_lines = << >>
  /\ tel_lines = << >>
  /\ contact = EmptyDict
  /\ info = NoInfo
  /\ epc = "idle"

Next ==
  \/ ReadAndParse
  \/ FileNotFound
  \/ ProcessContact
  \/ ProcessingError
  \/ WriteXml

Spec == Init /\ [][Next]_vars

(***************************************************************************)
(* extract_contact_info applied to one parsed record.                      *)
(***************************************************************************)
\* The contact parse_vcf_file returns for a record with these property
\* lines, of which there is at least one.
ContactOf(lines) ==
  parse_vcf_file(TextOf(<< LineBegin >> \o lines \o << LineEnd >>))[1]

ExtractReturns ==
  /\ epc = "call"
  /\ \E r \in { extract_contact_info(contact) } :
       /\ ~r.raised
       /\ info' = r
  /\ epc' = "returned"
  /\ UNCHANGED << name_lines, tel_lines, contact >>
  /\ UNCHANGED convert_vars

ExtractRaises ==
  /\ epc = "call"
  /\ extract_contact_info(contact).raised
  /\ epc' = "raised"
  /\ UNCHANGED << name_lines, tel_lines, contact, info >>
  /\ UNCHANGED convert_vars

\* parse_vcf_file returns no empty contact: the record has a property.
InitExtract ==
  /\ name_lines \in NameLines
  /\ tel_lines \in SeqsUpTo(TelLines, MaxTel)
  /\ name_lines \o tel_lines # << >>
  /\ contact = ContactOf(name_lines \o tel_lines)
  /\ info = NoInfo
  /\ epc = "call"
  /\ vcf_file = << >>
  /\ pc = "idle"
  /\ contacts = << >>
  /\ idx = 0
  /\ contact_id = 0
  /\ processed_contacts = 0
  /\ xml_output = << >>
  /\ xml_file = << >>

NextExtract ==
  \/ ExtractReturns
  \/ ExtractRaises

SpecExtract == InitExtract /\ [][NextExtract]_vars

(***************************************************************************)
(* Properties of convert_vcf_to_xml (specification Spec).                  *)
(***************************************************************************)
\* The <Contact> blocks of the output file; none when it was not written.
Output == IF xml_file = << >> THEN << >> ELSE xml_file[1]

\* The number of digit characters of a string.
DigitCount(str) == Cardinality({ i \in 1..Len(str) : str[i] \in Digits })

\* Whether the run has parsed its input.
Parsed == pc \in { "loop", "done", "exit_error" }

\* Whether the loop of convert_vcf_to_xml emits this contact.
Emits(c) ==
  LET r == extract_contact_info(c)
  IN  /\ ~r.raised
      /\ generate_contact_xml(1, r.firstname, r.lastname, r.phone_numbers) # << >>

Rejects(c) ==
  LET r == extract_contact_info(c)
  IN  /\ ~r.raised
      /\ generate_contact_xml(1, r.firstname, r.lastname, r.phone_numbers) = << >>

IdsFromOne(blocks) == \A k \in 1..Len(blocks) : blocks[k].id = str_int(k)

\* C1: the ids of the emitted contacts are 1, 2, ..., k in source order, k
\* being the number of accepted contacts, however many rejected contacts lie
\* before or between them.
C1_IdsDense ==
  /\ Len(xml_output) = processed_contacts
  /\ IdsFromOne(xml_output)
  /\ IdsFromOne(Output)

\* A finished run that emitted two contacts, with a rejected contact before
\* the first of them and another between the two.
C1_Witness ==
  /\ pc = "done"
  /\ Len(Output) = 2
  /\ Len(contacts) = 4
  /\ Rejects(contacts[1]) /\ Emits(contacts[2])
  /\ Rejects(contacts[3]) /\ Emits(contacts[4])

NoShortPhone(blocks) ==
  \A k \in 1..Len(blocks) :
    \A p \in 1..Len(blocks[k].Phone) :
      DigitCount(blocks[k].Phone[p].phonenumber) >= 7

\* C2: no phone entry of an emitted contact has 6 digits or fewer: every
\* emitted phone number has at least 7 digit characters.
C2_NoShortPhoneEmitted == NoShortPhone(xml_output) /\ NoShortPhone(Output)

\* A finished run that emitted a contact, one of whose TEL values has at
\* most 6 digits.
C2_Witness ==
  /\ pc = "done"
  /\ Len(contacts) = 1
  /\ Len(Output) = 1
  /\ \E t \in 1..Len(contacts[1][TEL]) :
       /\ contacts[1][TEL][t].value # << >>
       /\ DigitCount(contacts[1][TEL][t].value) <= 6

\* Whether a TEL occurrence passes the filter: its sanitized value is not
\* empty and has more than 6 digits.
IsAcceptedTel(tel) ==
  LET sp == sanitize_phone_number(strip(tel.value))
  IN  sp # << >> /\ DigitCount(sp) >= 7

\* A contact with a resolved first name and an accepted TEL entry.
Qualifies(c) ==
  /\ extract_contact_info(c).firstname # << >>
  /\ TEL \in DOMAIN c
  /\ \E t \in 1..Len(c[TEL]) : IsAcceptedTel(c[TEL][t])

RECURSIVE QualifyingNames(_)
QualifyingNames(cs) ==
  IF cs = << >> THEN << >>
  ELSE (IF Qualifies(Head(cs))
        THEN << escape(extract_contact_info(Head(cs)).firstname) >>
        ELSE << >>)
       \o QualifyingNames(Tail(cs))

RECURSIVE FirstNames(_)
FirstNames(blocks) ==
  IF blocks = << >> THEN << >>
  ELSE << Head(blocks).FirstName >> \o FirstNames(Tail(blocks))

\* C3: a parsed contact appears in the output if and only if its resolved
\* firstName is not empty and at least one of its TEL entries is accepted:
\* once the run has ended, the contacts of the output are, in order, the
\* parsed contacts that qualify.
C3_EmittedIffQualifies ==
  pc \in { "done", "exit_error" } => FirstNames(Output) = QualifyingNames(contacts)

\* The part of C3 that holds: a run that ends without an exception emits
\* exactly the qualifying contacts.
EmittedIffQualifiesOnSuccess ==
  pc = "done" => FirstNames(Output) = QualifyingNames(contacts)

\* C5: malformed input never raises: no run reaches the generic
\* processing-error exit.
C5_InputNeverRaises == pc # "exit_error"

\* The lines of the input file.
InputLines == split(vcf_file[1], "\n")

\* A line that begins with a space or a horizontal tab.
IsFolded(line) == line # << >> /\ Head(line) \in { " ", "\t" }

StartOfParse == [contacts |-> << >>, current_contact |-> EmptyDict]

\* C7: every line that begins with a space or a tab is skipped and
\* contributes nothing: the contacts parsed are those of the input with
\* these lines left out.
C7_FoldedLinesSkipped ==
  Parsed =>
    contacts =
      parse_lines(StartOfParse,
                  SelectSeq(InputLines, LAMBDA l : ~IsFolded(l))).contacts

IsBeginLine(line) ==
  LET d == parse_vcard_line(line) IN d.prop_name = BEGIN /\ d.value = VCARD

IsEndLine(line) ==
  LET d == parse_vcard_line(line) IN d.prop_name = END /\ d.value = VCARD

\* C8: every returned contact consists exactly of the property lines between
\* a BEGIN:VCARD line and the next END:VCARD line after it, with no other
\* BEGIN or END between the two.
C8_ContactsAreDelimitedRecords ==
  Parsed =>
    \A k \in 1..Len(contacts) :
      \E b, e \in 1..Len(InputLines) :
        /\ b < e
        /\ IsBeginLine(InputLines[b])
        /\ IsEndLine(InputLines[e])
        /\ \A m \in (b + 1)..(e - 1) :
             ~IsBeginLine(InputLines[m]) /\ ~IsEndLine(InputLines[m])
        /\ contacts[k] =
             parse_lines(StartOfParse,
                         SubSeq(InputLines, b + 1, e - 1)).current_contact

(***************************************************************************)
(* Properties of extract_contact_info (specification SpecExtract).         *)
(***************************************************************************)
\* The TEL occurrences of the contact, in arrival order.
Tels == IF TEL \in DOMAIN contact THEN contact[TEL] ELSE << >>

\* The accepted TEL occurrences, in arrival order.
AcceptedTels == SelectSeq(Tels, IsAcceptedTel)

\* The TEL lines of the accepted occurrences, in arrival order.
AcceptedLines ==
  SelectSeq(tel_lines,
            LAMBDA l : IsAcceptedTel([value |-> parse_vcard_line(l).value]))

\* C4: a TEL line written TYPE=HOME,FAX gets category Home, and a TEL line
\* with TYPE=PAGER alone gets category Work.
C4_HomeFaxIsHomePagerIsWork ==
  epc = "returned" =>
    LET lines == AcceptedLines
    IN  \A k \in 1..Len(info.phone_numbers) :
          /\ lines[k] = LineTelHomeFax
               => info.phone_numbers[k].phone_type = "Home"
          /\ lines[k] = LineTelPager
               => info.phone_numbers[k].phone_type = "Work"

\* C6: the phone sequence has length at most 3 and is the first three
\* accepted TEL occurrences in arrival order; rejected occurrences neither
\* count toward the limit nor change the order.
C6_FirstThreeAccepted ==
  epc = "returned" =>
    LET accepted == AcceptedTels
    IN  /\ Len(info.phone_numbers) <= 3
        /\ Len(info.phone_numbers) = IF Len(accepted) < 3 THEN Len(accepted) ELSE 3
        /\ \A k \in 1..Len(info.phone_numbers) :
             info.phone_numbers[k].phone_number =
               sanitize_phone_number(strip(accepted[k].value))

\* A contact with four accepted TEL occurrences, of which three are kept.
C6_Witness ==
  /\ epc = "returned"
  /\ Len(AcceptedTels) = 4
  /\ Len(info.phone_numbers) = 3

NameParts ==
  IF N \in DOMAIN contact THEN split(contact[N][1].value, ";") ELSE << >>

\* firstName comes from FN: N is absent, has fewer than 2 parts or has an
\* empty given-name part, and FN is present.
FNFallback ==
  /\ FN \in DOMAIN contact
  /\ \/ N \notin DOMAIN contact
     \/ Len(NameParts) < 2
     \/ strip(NameParts[2]) = << >>

\* C9: whenever firstName is taken from the FN fallback the returned
\* lastName is empty; a non-empty lastName is returned only together with a
\* firstName taken from part[1] of N.
C9_FallbackLeavesLastNameEmpty ==
  epc = "returned" =>
    /\ FNFallback => info.lastname = << >>
    /\ info.lastname # << >> =>
         /\ N \in DOMAIN contact
         /\ Len(NameParts) >= 2
         /\ info.firstname = strip(NameParts[2])

Recognised == { cell, mobile, home, work }

\* The category the first recognised element of a TYPE list stands for;
\* Work when no element is recognised or there is no TYPE parameter.
FirstRecognisedCategory(params) ==
  IF TYPE \notin DOMAIN params THEN "Work"
  ELSE LET items == params[TYPE].items
           hits == { j \in 1..Len(items) : lower(items[j]) \in Recognised }
       IN  IF hits = { } THEN "Work"
           ELSE LET first == lower(items[CHOOSE j \in hits : \A h \in hits : j <= h])
                IN  IF first \in { cell, mobile } THEN "Mobile"
                    ELSE IF first = home THEN "Home"
                    ELSE "Work"

\* C10: the category of an accepted TEL occurrence whose TYPE parameter is a
\* list is decided by the first element that is cell or mobile (Mobile),
\* home (Home) or work (Work), case-insensitively, later elements being
\* ignored; it is Work if no element matches or there is no TYPE parameter.
\* Every phone entry has exactly one category among Work, Home and Mobile.
C10_CategoryOfFirstRecognisedType ==
  epc = "returned" =>
    LET accepted == AcceptedTels
    IN  \A k \in 1..Len(info.phone_numbers) :
          LET params == accepted[k].params
          IN  /\ info.phone_numbers[k].phone_type \in { "Work", "Home", "Mobile" }
              /\ (TYPE \in DOMAIN params => params[TYPE].kind = "list")
                   => info.phone_numbers[k].phone_type
                        = FirstRecognisedCategory(params)

\* A kept TEL occurrence whose TYPE list starts with an unrecognised
\* element, goes on with a recognised one and then with a different one.
C10_Witness ==
  /\ epc = "returned"
  /\ \E k \in 1..Len(info.phone_numbers) :
       LET params == AcceptedTels[k].params
       IN  /\ TYPE \in DOMAIN params
           /\ params[TYPE].kind = "list"
           /\ Len(params[TYPE].items) >= 3
           /\ lower(params[TYPE].items[1]) \notin Recognised
           /\ lower(params[TYPE].items[2]) = home
           /\ lower(params[TYPE].items[3]) = cell
           /\ info.phone_numbers[k].phone_type = "Home"

=============================================================================
